---- MODULE Spec2Model ----
(***************************************************************************)
(* build-vercel.js: the script that repackages the static web build in     *)
(* `dist` into the Vercel Build Output layout under `.vercel/output`.      *)
(*                                                                         *)
(* The file system is a function from paths to nodes.  A path is a         *)
(* sequence of names, a name and a file's content are sequences of byte    *)
(* values (a JavaScript string is the sequence of its code points).  The   *)
(* script is five steps run in order; a step that throws ends the run.     *)
(***************************************************************************)
EXTENDS Integers, Sequences, FiniteSets, TLC

VARIABLES
    fs,         \* the file system: path -> node
    dirOrder,   \* the order in which the file system lists names
    pc,         \* the step of the script that runs next
    exit,       \* "running", "success" (exit code 0) or "failure" (uncaught throw)
    jsFile,     \* const jsFile of the script; <<>> while undefined
    runs,       \* the number of invocations started so far
    prior       \* what was at .vercel/output when the invocation started

vars == <<fs, dirOrder, pc, exit, jsFile, runs, prior>>

(***************************************************************************)
(* Bounds of the model.                                                    *)
(***************************************************************************)
\* invocations of the script in one behaviour
MaxRuns == 2
\* tags an index.html is made of
MaxTags == 2

(***************************************************************************)
(* Names of files and directories.                                         *)
(***************************************************************************)
\* dist
n_dist ==
    <<100, 105, 115, 116>>
\* .vercel
n_vercel ==
    <<46, 118, 101, 114, 99, 101, 108>>
\* output
n_output ==
    <<111, 117, 116, 112, 117, 116>>
\* static
n_static ==
    <<115, 116, 97, 116, 105, 99>>
\* config
n_config ==
    <<99, 111, 110, 102, 105, 103>>
\* config.json
n_configjson ==
    <<99, 111, 110, 102, 105, 103, 46, 106, 115, 111, 110>>
\* bundle.js
n_bundlejs ==
    <<98, 117, 110, 100, 108, 101, 46, 106, 115>>
\* index.html
n_indexhtml ==
    <<105, 110, 100, 101, 120, 46, 104, 116, 109, 108>>
\* _expo
n_expo ==
    <<95, 101, 120, 112, 111>>
\* js
n_js ==
    <<106, 115>>
\* web
n_web ==
    <<119, 101, 98>>
\* x
n_x ==
    <<120>>
\* assets
n_assets ==
    <<97, 115, 115, 101, 116, 115>>
\* stale.txt
n_stale ==
    <<115, 116, 97, 108, 101, 46, 116, 120, 116>>
\* AppEntry-1.js
n_AppEntry1 ==
    <<65, 112, 112, 69, 110, 116, 114, 121, 45, 49, 46, 106, 115>>
\* AppEntry-2.js
n_AppEntry2 ==
    <<65, 112, 112, 69, 110, 116, 114, 121, 45, 50, 46, 106, 115>>
\* AppEntry-x.js.map
n_AppEntryMap ==
    <<65, 112, 112, 69, 110, 116, 114, 121, 45, 120, 46, 106, 115, 46, 109,
    97, 112>>
\* main-AppEntry.js
n_mainAppEntry ==
    <<109, 97, 105, 110, 45, 65, 112, 112, 69, 110, 116, 114, 121, 46, 106,
    115>>

(***************************************************************************)
(* String literals of the script.                                          *)
(***************************************************************************)
\* AppEntry
s_AppEntry ==
    <<65, 112, 112, 69, 110, 116, 114, 121>>
\* .js
s_dotjs ==
    <<46, 106, 115>>
\* src="
s_srcq ==
    <<115, 114, 99, 61, 34>>
\* .js"
s_dotjsq ==
    <<46, 106, 115, 34>>
\* src="/bundle.js"
s_replacement ==
    <<115, 114, 99, 61, 34, 47, 98, 117, 110, 100, 108, 101, 46, 106, 115,
    34>>

(***************************************************************************)
(* Input texts: the tags an index.html is built from, and file contents.   *)
(***************************************************************************)
\* <script src="/_expo/static/js/web/AppEntry-abc123.js">
t_expo ==
    <<60, 115, 99, 114, 105, 112, 116, 32, 115, 114, 99, 61, 34, 47, 95,
    101, 120, 112, 111, 47, 115, 116, 97, 116, 105, 99, 47, 106, 115, 47,
    119, 101, 98, 47, 65, 112, 112, 69, 110, 116, 114, 121, 45, 97, 98, 99,
    49, 50, 51, 46, 106, 115, 34, 62>>
\* <script src="/x/AppEntry-1.js"></script>
t_x ==
    <<60, 115, 99, 114, 105, 112, 116, 32, 115, 114, 99, 61, 34, 47, 120,
    47, 65, 112, 112, 69, 110, 116, 114, 121, 45, 49, 46, 106, 115, 34, 62,
    60, 47, 115, 99, 114, 105, 112, 116, 62>>
\* <img src="/logo.png">
t_img ==
    <<60, 105, 109, 103, 32, 115, 114, 99, 61, 34, 47, 108, 111, 103, 111,
    46, 112, 110, 103, 34, 62>>
\* <a data-src="AppEntry.js">
t_data ==
    <<60, 97, 32, 100, 97, 116, 97, 45, 115, 114, 99, 61, 34, 65, 112, 112,
    69, 110, 116, 114, 121, 46, 106, 115, 34, 62>>
\* <p title="AppEntry.js">
t_title ==
    <<60, 112, 32, 116, 105, 116, 108, 101, 61, 34, 65, 112, 112, 69, 110,
    116, 114, 121, 46, 106, 115, 34, 62>>
\* <script src="/AppEntry.js.map">
t_map ==
    <<60, 115, 99, 114, 105, 112, 116, 32, 115, 114, 99, 61, 34, 47, 65,
    112, 112, 69, 110, 116, 114, 121, 46, 106, 115, 46, 109, 97, 112, 34,
    62>>
\* b'<p>caf\xe9</p>'
t_latin1 ==
    <<60, 112, 62, 99, 97, 102, 233, 60, 47, 112, 62>>
\* <p>café</p>
t_utf8 ==
    <<60, 112, 62, 99, 97, 102, 195, 169, 60, 47, 112, 62>>
\* console.log(1)
c_js1 ==
    <<99, 111, 110, 115, 111, 108, 101, 46, 108, 111, 103, 40, 49, 41>>
\* console.log(2)
c_js2 ==
    <<99, 111, 110, 115, 111, 108, 101, 46, 108, 111, 103, 40, 50, 41>>
\* {}
c_map ==
    <<123, 125>>
\* main()
c_main ==
    <<109, 97, 105, 110, 40, 41>>
\* own()
c_own ==
    <<111, 119, 110, 40, 41>>
\* STALE
c_stale ==
    <<83, 84, 65, 76, 69>>

(***************************************************************************)
(* Strings.                                                                *)
(***************************************************************************)
Max(S) == CHOOSE x \in S : \A y \in S : y <= x

Min(S) == CHOOSE x \in S : \A y \in S : x <= y

\* s.substring(i - 1, i - 1 + n), <<>> past the end of s
Slice(s, i, n) ==
    IF i + n - 1 <= Len(s) THEN SubSeq(s, i, i + n - 1) ELSE <<>>

\* f.startsWith(s)
startsWith(f, s) == Len(s) <= Len(f) /\ SubSeq(f, 1, Len(s)) = s

\* f.endsWith(s)
endsWith(f, s) ==
    Len(s) <= Len(f) /\ SubSeq(f, Len(f) - Len(s) + 1, Len(f)) = s

(***************************************************************************)
(* UTF-8, as fs.readFileSync(path, 'utf8') decodes a file and              *)
(* fs.writeFileSync(path, string) encodes a string: a byte sequence that   *)
(* is no UTF-8 decodes to U+FFFD, once per maximal ill-formed part.        *)
(***************************************************************************)
REPLACEMENT == 65533

IsContinuation(b) == b \in 128..191

\* how many continuation bytes the lead byte b1 asks for, -1 for no lead
Need(b1) ==
    IF b1 < 128 THEN 0
    ELSE IF b1 \in 194..223 THEN 1
    ELSE IF b1 \in 224..239 THEN 2
    ELSE IF b1 \in 240..244 THEN 3
    ELSE -1

\* is b2 a second byte the lead byte b1 allows
IsSecond(b1, b2) ==
    /\ b2 >= (IF b1 = 224 THEN 160 ELSE IF b1 = 240 THEN 144 ELSE 128)
    /\ b2 <= (IF b1 = 237 THEN 159 ELSE IF b1 = 244 THEN 143 ELSE 191)

\* the bytes the decoder takes as one unit at position i: a whole character,
\* or the longest part of one that is well formed, or one stray byte
UnitLength(b, i) ==
    LET n == Need(b[i])
        has(k) == i + k <= Len(b)
    IN  IF n <= 0 \/ ~(has(1) /\ IsSecond(b[i], b[i + 1])) THEN 1
        ELSE IF n = 1 \/ ~(has(2) /\ IsContinuation(b[i + 2])) THEN 2
        ELSE IF n = 2 \/ ~(has(3) /\ IsContinuation(b[i + 3])) THEN 3
        ELSE 4

\* the code point the unit at position i decodes to
UnitValue(b, i) ==
    LET n == Need(b[i])
    IN  IF n = 0 THEN b[i]
        ELSE IF n = -1 \/ UnitLength(b, i) # n + 1 THEN REPLACEMENT
        ELSE IF n = 1 THEN (b[i] - 192) * 64 + (b[i + 1] - 128)
        ELSE IF n = 2
          THEN (b[i] - 224) * 4096 + (b[i + 1] - 128) * 64 + (b[i + 2] - 128)
        ELSE (b[i] - 240) * 262144 + (b[i + 1] - 128) * 4096
             + (b[i + 2] - 128) * 64 + (b[i + 3] - 128)

\* is position i inside the unit of an earlier byte (a unit of several bytes
\* starts at a lead byte, which no earlier unit can hold)
InsideUnit(b, i) == \E k \in 1..3 : i - k >= 1 /\ UnitLength(b, i - k) > k

\* the code points of the units that start in b[lo..hi], by halves
RECURSIVE utf8DecodeRange(_, _, _)
utf8DecodeRange(b, lo, hi) ==
    IF lo > hi THEN <<>>
    ELSE IF lo = hi
      THEN IF InsideUnit(b, lo) THEN <<>> ELSE <<UnitValue(b, lo)>>
    ELSE LET mid == (lo + hi) \div 2
         IN  utf8DecodeRange(b, lo, mid) \o utf8DecodeRange(b, mid + 1, hi)

\* buffer.toString('utf8')
utf8Decode(b) == utf8DecodeRange(b, 1, Len(b))

\* the bytes of one code point
utf8EncodeChar(c) ==
    IF c < 128 THEN <<c>>
    ELSE IF c < 2048 THEN <<192 + (c \div 64), 128 + (c % 64)>>
    ELSE IF c < 65536
      THEN <<224 + (c \div 4096), 128 + ((c \div 64) % 64), 128 + (c % 64)>>
    ELSE <<240 + (c \div 262144), 128 + ((c \div 4096) % 64),
           128 + ((c \div 64) % 64), 128 + (c % 64)>>

\* the bytes of the code points s[lo..hi], by halves
RECURSIVE utf8EncodeRange(_, _, _)
utf8EncodeRange(s, lo, hi) ==
    IF lo > hi THEN <<>>
    ELSE IF lo = hi THEN utf8EncodeChar(s[lo])
    ELSE LET mid == (lo + hi) \div 2
         IN  utf8EncodeRange(s, lo, mid) \o utf8EncodeRange(s, mid + 1, hi)

\* Buffer.from(string, 'utf8')
utf8Encode(s) == utf8EncodeRange(s, 1, Len(s))

(***************************************************************************)
(* The regular expression /src="[^"]*AppEntry[^"]*\.js"/ and               *)
(* String.prototype.replace with it: a backtracking matcher, the leftmost  *)
(* start that matches, each [^"]* as long as the rest allows.              *)
(***************************************************************************)
Lit(s) == [op |-> "lit", s |-> s]

NotStar(s) == [op |-> "notStar", s |-> s]

\* /src="[^"]*AppEntry[^"]*\.js"/
regex ==
    <<Lit(s_srcq), NotStar(<<34>>), Lit(s_AppEntry), NotStar(<<34>>),
      Lit(s_dotjsq)>>

\* how many characters from position i on are none of excl
RunLength(h, i, excl) ==
    Max({n \in 0..(Len(h) - i + 1) :
            \A j \in i..(i + n - 1) : \A q \in 1..Len(excl) : h[j] # excl[q]})

\* the position after the match of regex[k..] at position i of h, 0 if none
RECURSIVE matchHere(_, _, _)
matchHere(h, i, k) ==
    IF k > Len(regex) THEN i
    ELSE IF regex[k].op = "lit"
      THEN IF Slice(h, i, Len(regex[k].s)) = regex[k].s
             THEN matchHere(h, i + Len(regex[k].s), k + 1)
             ELSE 0
    ELSE
      LET ends == {n \in 0..RunLength(h, i, regex[k].s) :
                      matchHere(h, i + n, k + 1) # 0}
      IN  IF ends = {} THEN 0 ELSE matchHere(h, i + Max(ends), k + 1)

\* the starts at which the regex matches
matchStarts(h) == {i \in 1..Len(h) : matchHere(h, i, 1) # 0}

\* html.replace(/src="[^"]*AppEntry[^"]*\.js"/, 'src="/bundle.js"')
replace(h) ==
    IF matchStarts(h) = {} THEN h
    ELSE LET i == Min(matchStarts(h))
             e == matchHere(h, i, 1)
         IN  SubSeq(h, 1, i - 1) \o s_replacement \o SubSeq(h, e, Len(h))

(***************************************************************************)
(* The file system.                                                        *)
(***************************************************************************)
Dir == [kind |-> "dir", data |-> <<>>]

File(d) == [kind |-> "file", data |-> d]

EmptyFS == [p \in {} |-> Dir]

\* path.join(p, n)
join(p, n) == Append(p, n)

Parent(p) == SubSeq(p, 1, Len(p) - 1)

\* p is q or an ancestor of q
IsPrefix(p, q) == Len(p) <= Len(q) /\ SubSeq(q, 1, Len(p)) = p

\* the outcome of a call that can throw
Ok(f) == [ok |-> TRUE, fs |-> f]

Throw(f) == [ok |-> FALSE, fs |-> f]

\* fs.existsSync(p)
existsSync(f, p) == p \in DOMAIN f

\* fs.statSync(p).isDirectory()
isDirectory(f, p) == f[p].kind = "dir"

IsFile(f, p) == existsSync(f, p) /\ f[p].kind = "file"

IsDir(f, p) == existsSync(f, p) /\ f[p].kind = "dir"

\* fs.rmSync(p, { recursive: true })
rmSync(f, p) == [q \in {q \in DOMAIN f : ~IsPrefix(p, q)} |-> f[q]]

\* fs.mkdirSync(p, { recursive: true }): throws when p or an ancestor is a file
mkdirSync(f, p) ==
    LET ancestors == {SubSeq(p, 1, n) : n \in 1..Len(p)}
    IN  IF \E a \in ancestors : IsFile(f, a) THEN Throw(f)
        ELSE Ok([q \in DOMAIN f \cup ancestors |->
                    IF q \in DOMAIN f THEN f[q] ELSE Dir])

\* can a file be created or overwritten at p
Writable(f, p) == IsDir(f, Parent(p)) /\ ~IsDir(f, p)

\* fs.writeFileSync(p, data)
writeFileSync(f, p, data) ==
    IF Writable(f, p)
      THEN Ok([q \in DOMAIN f \cup {p} |-> IF q = p THEN File(data) ELSE f[q]])
      ELSE Throw(f)

\* fs.copyFileSync(src, dest): with src a directory the copy opens dest,
\* fails to read src and removes dest on the failure
copyFileSync(f, src, dest) ==
    IF IsFile(f, src) THEN writeFileSync(f, dest, f[src].data)
    ELSE IF IsDir(f, src) /\ Writable(f, dest)
      THEN Throw([q \in DOMAIN f \ {dest} |-> f[q]])
    ELSE Throw(f)

\* the names fs.readdirSync(p) lists, in the file system's order
readdirSync(f, p) ==
    LET Listed(n) == join(p, n) \in DOMAIN f
    IN  SelectSeq(dirOrder, Listed)

(***************************************************************************)
(* The script's paths.                                                     *)
(***************************************************************************)
outputDir == <<n_vercel, n_output>>

staticDir == join(outputDir, n_static)

configDir == join(outputDir, n_config)

distDir == <<n_dist>>

jsDir == <<n_dist, n_expo, n_static, n_js, n_web>>

\* bundle.js at the root of the source tree
bundlePath_InDist == join(distDir, n_bundlejs)

bundlePath == join(staticDir, n_bundlejs)

\* the index.html of the source tree in place of the static copy
indexPath_InDist == join(distDir, n_indexhtml)

indexPath == join(staticDir, n_indexhtml)

\* config.json inside the config directory
configPath_InConfig == join(configDir, n_configjson)

configPath == join(outputDir, n_configjson)

(***************************************************************************)
(* copyRecursive(src, dest)                                                *)
(***************************************************************************)
RECURSIVE copyRecursive(_, _, _)
RECURSIVE copyItems(_, _, _, _, _)
\* copyRecursive without the return on a missing src: statSync throws
copyRecursive_NoReturn(f, src, dest) ==
    IF ~existsSync(f, src) THEN Throw(f)
    ELSE IF isDirectory(f, src)
      THEN LET made == IF ~existsSync(f, dest) THEN mkdirSync(f, dest) ELSE Ok(f)
           IN  IF made.ok
                 THEN copyItems(made.fs, src, dest, readdirSync(made.fs, src), 1)
                 ELSE made
    ELSE copyFileSync(f, src, dest)

\* readdirSync(src).forEach(item => copyRecursive(join(src, item), join(dest, item)))
copyItems(f, src, dest, items, i) ==
    IF i > Len(items) THEN Ok(f)
    ELSE LET r == copyRecursive(f, join(src, items[i]), join(dest, items[i]))
         IN  IF r.ok THEN copyItems(r.fs, src, dest, items, i + 1) ELSE r

copyRecursive(f, src, dest) ==
    IF ~existsSync(f, src) THEN Ok(f)
    ELSE IF isDirectory(f, src)
      THEN LET made == IF ~existsSync(f, dest) THEN mkdirSync(f, dest) ELSE Ok(f)
           IN  IF made.ok
                 THEN copyItems(made.fs, src, dest, readdirSync(made.fs, src), 1)
                 ELSE made
    ELSE copyFileSync(f, src, dest)

(***************************************************************************)
(* JSON values and JSON.stringify(value, null, 2).                         *)
(***************************************************************************)
\* version
k_version ==
    <<118, 101, 114, 115, 105, 111, 110>>
\* routes
k_routes ==
    <<114, 111, 117, 116, 101, 115>>
\* src
k_src ==
    <<115, 114, 99>>
\* headers
k_headers ==
    <<104, 101, 97, 100, 101, 114, 115>>
\* continue
k_continue ==
    <<99, 111, 110, 116, 105, 110, 117, 101>>
\* handle
k_handle ==
    <<104, 97, 110, 100, 108, 101>>
\* dest
k_dest ==
    <<100, 101, 115, 116>>
\* Cache-Control
k_CacheControl ==
    <<67, 97, 99, 104, 101, 45, 67, 111, 110, 116, 114, 111, 108>>
\* ^/static/(.*)$
v_static ==
    <<94, 47, 115, 116, 97, 116, 105, 99, 47, 40, 46, 42, 41, 36>>
\* ^/assets/(.*)$
v_assets ==
    <<94, 47, 97, 115, 115, 101, 116, 115, 47, 40, 46, 42, 41, 36>>
\* public, max-age=31536000, immutable
v_cache ==
    <<112, 117, 98, 108, 105, 99, 44, 32, 109, 97, 120, 45, 97, 103, 101,
    61, 51, 49, 53, 51, 54, 48, 48, 48, 44, 32, 105, 109, 109, 117, 116, 97,
    98, 108, 101>>
\* filesystem
v_filesystem ==
    <<102, 105, 108, 101, 115, 121, 115, 116, 101, 109>>
\* /(.*)
v_all ==
    <<47, 40, 46, 42, 41>>
\* /index.html
v_index ==
    <<47, 105, 110, 100, 101, 120, 46, 104, 116, 109, 108>>
\* true
s_true ==
    <<116, 114, 117, 101>>
\* false
s_false ==
    <<102, 97, 108, 115, 101>>

JNum(n) == [t |-> "num", n |-> n, s |-> <<>>, keys |-> <<>>, kids |-> <<>>]

JStr(s) == [t |-> "str", n |-> 0, s |-> s, keys |-> <<>>, kids |-> <<>>]

JBool(b) ==
    [t |-> "bool", n |-> IF b THEN 1 ELSE 0, s |-> <<>>, keys |-> <<>>,
     kids |-> <<>>]

JArr(items) == [t |-> "arr", n |-> 0, s |-> <<>>, keys |-> <<>>, kids |-> items]

\* an object literal: its members <<key, value>> in the order written
JObj(members) ==
    [t |-> "obj", n |-> 0, s |-> <<>>,
     keys |-> [i \in 1..Len(members) |-> members[i][1]],
     kids |-> [i \in 1..Len(members) |-> members[i][2]]]

\* the manifest with the fallback route ahead of the file system handle
config_FallbackFirst ==
    JObj(<<
      <<k_version, JNum(3)>>,
      <<k_routes, JArr(<<
        JObj(<<
          <<k_src, JStr(v_static)>>,
          <<k_headers, JObj(<< <<k_CacheControl, JStr(v_cache)>> >>)>>,
          <<k_continue, JBool(TRUE)>> >>),
        JObj(<<
          <<k_src, JStr(v_assets)>>,
          <<k_headers, JObj(<< <<k_CacheControl, JStr(v_cache)>> >>)>>,
          <<k_continue, JBool(TRUE)>> >>),
        JObj(<<
          <<k_src, JStr(v_all)>>,
          <<k_dest, JStr(v_index)>> >>),
        JObj(<< <<k_handle, JStr(v_filesystem)>> >>) >>)>> >>)

\* const config = { version: 3, routes: [...] }
config ==
    JObj(<<
      <<k_version, JNum(3)>>,
      <<k_routes, JArr(<<
        JObj(<<
          <<k_src, JStr(v_static)>>,
          <<k_headers, JObj(<< <<k_CacheControl, JStr(v_cache)>> >>)>>,
          <<k_continue, JBool(TRUE)>> >>),
        JObj(<<
          <<k_src, JStr(v_assets)>>,
          <<k_headers, JObj(<< <<k_CacheControl, JStr(v_cache)>> >>)>>,
          <<k_continue, JBool(TRUE)>> >>),
        JObj(<< <<k_handle, JStr(v_filesystem)>> >>),
        JObj(<<
          <<k_src, JStr(v_all)>>,
          <<k_dest, JStr(v_index)>> >>) >>)>> >>)

\* the decimal digits of a natural number
RECURSIVE digits(_)
digits(n) ==
    IF n < 10 THEN <<48 + n>> ELSE digits(n \div 10) \o <<48 + (n % 10)>>

HexDigit(d) == IF d < 10 THEN 48 + d ELSE 87 + d

\* one character of a string as JSON writes it inside the quotes
escapeChar(c) ==
    IF c = 34 THEN <<92, 34>>
    ELSE IF c = 92 THEN <<92, 92>>
    ELSE IF c = 8 THEN <<92, 98>>
    ELSE IF c = 9 THEN <<92, 116>>
    ELSE IF c = 10 THEN <<92, 110>>
    ELSE IF c = 12 THEN <<92, 102>>
    ELSE IF c = 13 THEN <<92, 114>>
    ELSE IF c < 32
      THEN <<92, 117, 48, 48, HexDigit(c \div 16), HexDigit(c % 16)>>
    ELSE <<c>>

RECURSIVE escapeFrom(_, _)
escapeFrom(s, i) ==
    IF i > Len(s) THEN <<>> ELSE escapeChar(s[i]) \o escapeFrom(s, i + 1)

\* a string as JSON writes it
quote(s) == <<34>> \o escapeFrom(s, 1) \o <<34>>

\* the indentation unit of JSON.stringify(value, null, 2)
gap == <<32, 32>>

RECURSIVE stringifyAt(_, _)
RECURSIVE stringifyKids(_, _, _)
\* the members or elements of v from the i-th on, one per line at indent
stringifyKids(v, i, indent) ==
    LET item == (IF v.t = "obj" THEN quote(v.keys[i]) \o <<58, 32>> ELSE <<>>)
                \o stringifyAt(v.kids[i], indent)
    IN  IF i = Len(v.kids) THEN item
        ELSE item \o <<44, 10>> \o indent \o stringifyKids(v, i + 1, indent)

\* v as JSON text, its own lines indented by stepback
stringifyAt(v, stepback) ==
    IF v.t = "num" THEN digits(v.n)
    ELSE IF v.t = "str" THEN quote(v.s)
    ELSE IF v.t = "bool" THEN (IF v.n = 1 THEN s_true ELSE s_false)
    ELSE
      LET open == IF v.t = "obj" THEN <<123>> ELSE <<91>>
          close == IF v.t = "obj" THEN <<125>> ELSE <<93>>
          indent == stepback \o gap
      IN  IF Len(v.kids) = 0 THEN open \o close
          ELSE open \o <<10>> \o indent \o stringifyKids(v, 1, indent)
               \o <<10>> \o stepback \o close

\* JSON.stringify(v, null, 2)
stringify(v) == stringifyAt(v, <<>>)

(***************************************************************************)
(* Reading JSON text back, as JSON.parse does for the values above.  A     *)
(* parse gives the value read and the position after it; ok is FALSE when  *)
(* the text is no JSON.                                                    *)
(***************************************************************************)
JFail == [ok |-> FALSE, v |-> JNum(0), next |-> 0]

JGot(v, next) == [ok |-> TRUE, v |-> v, next |-> next]

IsWs(c) == c \in {32, 9, 10, 13}

\* the first position from i on that holds no white space
SkipWs(s, i) ==
    Min({j \in i..(Len(s) + 1) : j > Len(s) \/ ~IsWs(s[j])})

IsDigit(c) == c \in 48..57

HexValue(c) ==
    IF c \in 48..57 THEN c - 48
    ELSE IF c \in 97..102 THEN c - 87
    ELSE IF c \in 65..70 THEN c - 55
    ELSE -1

\* the characters of a string from position i, inside the quotes, on
RECURSIVE parseChars(_, _)
parseChars(s, i) ==
    IF i > Len(s) \/ s[i] < 32 THEN [ok |-> FALSE, s |-> <<>>, next |-> 0]
    ELSE IF s[i] = 34 THEN [ok |-> TRUE, s |-> <<>>, next |-> i + 1]
    ELSE
      LET esc == s[i] = 92
          c == IF ~esc THEN s[i]
               ELSE IF i + 1 > Len(s) THEN -1
               ELSE IF s[i + 1] \in {34, 92, 47} THEN s[i + 1]
               ELSE IF s[i + 1] = 98 THEN 8
               ELSE IF s[i + 1] = 102 THEN 12
               ELSE IF s[i + 1] = 110 THEN 10
               ELSE IF s[i + 1] = 114 THEN 13
               ELSE IF s[i + 1] = 116 THEN 9
               ELSE IF s[i + 1] = 117 /\ i + 5 <= Len(s)
                       /\ \A k \in 2..5 : HexValue(s[i + k]) >= 0
                 THEN HexValue(s[i + 2]) * 4096 + HexValue(s[i + 3]) * 256
                      + HexValue(s[i + 4]) * 16 + HexValue(s[i + 5])
               ELSE -1
          width == IF ~esc THEN 1 ELSE IF s[i + 1] = 117 THEN 6 ELSE 2
      IN  IF c = -1 THEN [ok |-> FALSE, s |-> <<>>, next |-> 0]
          ELSE LET rest == parseChars(s, i + width)
               IN  [ok |-> rest.ok, s |-> <<c>> \o rest.s, next |-> rest.next]

\* the value of the digits s[i..j]
RECURSIVE numberOf(_, _, _)
numberOf(s, i, j) ==
    IF j < i THEN 0 ELSE numberOf(s, i, j - 1) * 10 + (s[j] - 48)

RECURSIVE parseValue(_, _)
RECURSIVE parseItems(_, _, _)
\* the elements (or members, when obj) from position i on, up to the bracket
parseItems(s, i, obj) ==
    LET k == SkipWs(s, i)
        key == IF obj /\ k <= Len(s) /\ s[k] = 34
                 THEN parseChars(s, k + 1)
                 ELSE [ok |-> ~obj, s |-> <<>>, next |-> k]
        colon == IF key.ok THEN SkipWs(s, key.next) ELSE 0
        item == IF ~key.ok THEN JFail
                ELSE IF ~obj THEN parseValue(s, k)
                ELSE IF colon <= Len(s) /\ s[colon] = 58
                  THEN parseValue(s, colon + 1)
                ELSE JFail
        after == IF item.ok THEN SkipWs(s, item.next) ELSE 0
        close == IF obj THEN 125 ELSE 93
        fail == [ok |-> FALSE, keys |-> <<>>, kids |-> <<>>, next |-> 0]
    IN  IF ~item.ok \/ after > Len(s) THEN fail
        ELSE IF s[after] = close
          THEN [ok |-> TRUE, keys |-> IF obj THEN <<key.s>> ELSE <<>>,
                kids |-> <<item.v>>, next |-> after + 1]
        ELSE IF s[after] = 44
          THEN LET rest == parseItems(s, after + 1, obj)
               IN  [ok |-> rest.ok,
                    keys |-> (IF obj THEN <<key.s>> ELSE <<>>) \o rest.keys,
                    kids |-> <<item.v>> \o rest.kids, next |-> rest.next]
        ELSE fail

\* the JSON value that starts at position i, after white space
parseValue(s, i) ==
    LET k == SkipWs(s, i)
    IN  IF k > Len(s) THEN JFail
        ELSE IF s[k] = 34
          THEN LET str == parseChars(s, k + 1)
               IN  IF str.ok THEN JGot(JStr(str.s), str.next) ELSE JFail
        ELSE IF IsDigit(s[k])
          THEN LET end == Max({j \in k..Len(s) :
                                  \A d \in k..j : IsDigit(s[d])})
               IN  IF s[k] = 48 /\ end > k THEN JFail
                   ELSE JGot(JNum(numberOf(s, k, end)), end + 1)
        ELSE IF Slice(s, k, 4) = s_true THEN JGot(JBool(TRUE), k + 4)
        ELSE IF Slice(s, k, 5) = s_false THEN JGot(JBool(FALSE), k + 5)
        ELSE IF s[k] \in {123, 91}
          THEN LET obj == s[k] = 123
                   e == SkipWs(s, k + 1)
               IN  IF e <= Len(s) /\ s[e] = (IF obj THEN 125 ELSE 93)
                     THEN JGot(IF obj THEN JObj(<<>>) ELSE JArr(<<>>), e + 1)
                   ELSE LET items == parseItems(s, k + 1, obj)
                        IN  IF ~items.ok THEN JFail
                            ELSE JGot([t |-> IF obj THEN "obj" ELSE "arr",
                                       n |-> 0, s |-> <<>>,
                                       keys |-> items.keys,
                                       kids |-> items.kids], items.next)
        ELSE JFail

\* JSON.parse(s): the value, when s is one JSON value and white space
parse(s) ==
    LET r == parseValue(s, 1)
    IN  IF r.ok /\ SkipWs(s, r.next) > Len(s) THEN r ELSE JFail

(***************************************************************************)
(* The steps of the script, each the outcome of its calls in order; a      *)
(* call that throws ends the step with the file system as it was then.     *)
(***************************************************************************)
\* resetOutput without the removal of the old output
resetOutput_KeepOld(f) ==
    LET made == mkdirSync(f, staticDir)
    IN  IF made.ok THEN mkdirSync(made.fs, configDir) ELSE made

\* resetOutput without the second mkdirSync
resetOutput_NoConfig(f) ==
    LET cleared == IF existsSync(f, outputDir) THEN rmSync(f, outputDir) ELSE f
    IN  mkdirSync(cleared, staticDir)

\* lines 10-17: remove the old output, create static and config
resetOutput(f) ==
    LET cleared == IF existsSync(f, outputDir) THEN rmSync(f, outputDir) ELSE f
        made == mkdirSync(cleared, staticDir)
    IN  IF made.ok THEN mkdirSync(made.fs, configDir) ELSE made

\* mirror with the output root as the destination
mirror_IntoOutputDir(f) == copyRecursive(f, distDir, outputDir)

\* lines 19-21: copyRecursive('dist', staticDir)
mirror(f) == copyRecursive(f, distDir, staticDir)

\* the test of the name without its prefix half
IsAppEntry_SuffixOnly(f) == endsWith(f, s_dotjs)

\* f => f.startsWith('AppEntry') && f.endsWith('.js')
IsAppEntry(f) == startsWith(f, s_AppEntry) /\ endsWith(f, s_dotjs)

\* find that returns the last name that passes the test
find_Last(files) ==
    LET hits == {i \in 1..Len(files) : IsAppEntry(files[i])}
    IN  IF hits = {} THEN <<>> ELSE files[Max(hits)]

\* files.find(f => ...): the first name that passes the test, <<>> for
\* undefined
find(files) ==
    LET hits == {i \in 1..Len(files) : IsAppEntry(files[i])}
    IN  IF hits = {} THEN <<>> ELSE files[Min(hits)]

\* line 28: the value of jsFile once the script has read the directory
findJsFile(f) == IF IsDir(f, jsDir) THEN find(readdirSync(f, jsDir)) ELSE <<>>

\* promote without the existsSync guard: readdirSync throws on no directory
promote_Unguarded(f) ==
    IF ~IsDir(f, jsDir) THEN Throw(f)
    ELSE IF findJsFile(f) # <<>>
      THEN copyFileSync(f, join(jsDir, findJsFile(f)), bundlePath)
    ELSE Ok(f)

\* promote with a second copy, under the bundle's own name
promote_UnderOwnName(f) ==
    IF ~existsSync(f, jsDir) THEN Ok(f)
    ELSE IF ~isDirectory(f, jsDir) THEN Throw(f)
    ELSE IF findJsFile(f) # <<>>
      THEN LET copied == copyFileSync(f, join(jsDir, findJsFile(f)), bundlePath)
           IN  IF copied.ok
                 THEN copyFileSync(copied.fs, join(jsDir, findJsFile(f)),
                                   join(staticDir, findJsFile(f)))
                 ELSE copied
    ELSE Ok(f)

\* promote that leaves a bundle.js that is already there
promote_KeepsExisting(f) ==
    IF ~existsSync(f, jsDir) THEN Ok(f)
    ELSE IF ~isDirectory(f, jsDir) THEN Throw(f)
    ELSE IF findJsFile(f) # <<>> /\ ~existsSync(f, bundlePath)
      THEN copyFileSync(f, join(jsDir, findJsFile(f)), bundlePath)
    ELSE Ok(f)

\* lines 23-34: copy the AppEntry file to bundle.js
promote(f) ==
    IF ~existsSync(f, jsDir) THEN Ok(f)
    ELSE IF ~isDirectory(f, jsDir) THEN Throw(f)
    ELSE IF findJsFile(f) # <<>>
      THEN copyFileSync(f, join(jsDir, findJsFile(f)), bundlePath)
    ELSE Ok(f)

\* rewrite without the existsSync guard: readFileSync throws on no file
rewrite_Unguarded(f) ==
    IF ~IsFile(f, indexPath) THEN Throw(f)
    ELSE writeFileSync(f, indexPath,
                       utf8Encode(replace(utf8Decode(f[indexPath].data))))

\* lines 36-44: point index.html at /bundle.js
rewrite(f) ==
    IF ~existsSync(f, indexPath) THEN Ok(f)
    ELSE IF isDirectory(f, indexPath) THEN Throw(f)
    ELSE writeFileSync(f, indexPath,
                       utf8Encode(replace(utf8Decode(f[indexPath].data))))

\* JSON.stringify(config, null, 2), as writeFileSync encodes it
configText == utf8Encode(stringify(config))

\* writeManifest followed by a second mirror of dist
writeManifest_MirrorsAgain(f) ==
    LET written == writeFileSync(f, configPath, configText)
    IN  IF written.ok THEN copyRecursive(written.fs, distDir, staticDir)
                      ELSE written

\* line 70: write config.json
writeManifest(f) == writeFileSync(f, configPath, configText)

\* the part of the file system at and below p
Subtree(f, p) == [q \in {q \in DOMAIN f : IsPrefix(p, q)} |-> f[q]]

(***************************************************************************)
(* The file systems the script is started in.                              *)
(***************************************************************************)
Tags == {t_expo, t_x, t_img, t_data, t_title, t_map, t_latin1, t_utf8}

\* the texts made of at most n tags
RECURSIVE Texts(_)
Texts(n) ==
    IF n = 0 THEN {<<>>}
    ELSE Texts(n - 1) \cup {h \o t : h \in Texts(n - 1), t \in Tags}

IndexOptions(n) ==
    {EmptyFS, join(distDir, n_indexhtml) :> Dir}
    \cup {join(distDir, n_indexhtml) :> File(h) : h \in Texts(n)}

BundleOptions ==
    {EmptyFS, join(distDir, n_bundlejs) :> File(c_own),
     join(distDir, n_bundlejs) :> Dir}

ExtraOptions ==
    {EmptyFS,
     (join(distDir, n_x) :> Dir)
       @@ (join(join(distDir, n_x), n_AppEntry1) :> File(c_js1)),
     join(distDir, n_assets) :> Dir}

WebNames == {n_AppEntry1, n_AppEntry2, n_AppEntryMap, n_mainAppEntry}

WebData(n) ==
    IF n = n_AppEntry1 THEN c_js1
    ELSE IF n = n_AppEntry2 THEN c_js2
    ELSE IF n = n_AppEntryMap THEN c_map
    ELSE c_main

\* the directories above dist/_expo/static/js/web
WebChain ==
    [p \in {SubSeq(jsDir, 1, n) : n \in 2..(Len(jsDir) - 1)} |-> Dir]

\* the orders in which a directory can list the names of W
Perms(W) ==
    {s \in [1..Cardinality(W) -> W] :
        \A i, j \in 1..Cardinality(W) : i # j => s[i] # s[j]}

\* dist/_expo/static/js/web holding the files named in W, listed in order o
WebDir(W, o) ==
    [tree |-> WebChain @@ (jsDir :> Dir)
              @@ [p \in {join(jsDir, n) : n \in W} |-> File(WebData(p[Len(p)]))],
     order |-> o]

\* what is under dist/_expo, with the order the bundle directory lists in:
\* nothing, no web directory, a file named web, a web directory of files,
\* and one with a directory named as a bundle is
WebOptions ==
    {[tree |-> EmptyFS, order |-> <<>>],
     [tree |-> WebChain, order |-> <<>>],
     [tree |-> WebChain @@ (jsDir :> File(c_own)), order |-> <<>>]}
    \cup UNION {{WebDir(W, o) : o \in Perms(W)} : W \in SUBSET WebNames}
    \cup {[tree |-> (join(jsDir, n_AppEntry1) :> Dir)
                    @@ WebDir({n_AppEntry2}, <<n_AppEntry2>>).tree,
           order |-> o] : o \in Perms({n_AppEntry1, n_AppEntry2})}

\* a dist directory put together from one option of each kind
DistOf(index, bundle, extra, web) ==
    [tree |-> (distDir :> Dir) @@ index @@ bundle @@ extra @@ web.tree,
     order |-> web.order]

\* the source trees: every shape of tree with a one-tag index.html, every
\* index.html of up to MaxTags tags with and without a bundle, a tree with
\* a config.json of its own, no dist, and a file named dist
SourceCases ==
    {DistOf(i, b, e, w) : i \in IndexOptions(1), b \in BundleOptions,
                          e \in ExtraOptions, w \in WebOptions}
    \cup {DistOf(i, b, EmptyFS, w) :
             i \in IndexOptions(MaxTags),
             b \in {EmptyFS, join(distDir, n_bundlejs) :> File(c_own)},
             w \in {w \in WebOptions : \/ DOMAIN w.tree = {}
                                       \/ w.order = <<n_AppEntry1>>}}
    \cup {DistOf(join(distDir, n_indexhtml) :> File(t_expo), EmptyFS,
                 join(distDir, n_configjson) :> File(c_own), w) :
             w \in {w \in WebOptions : \/ DOMAIN w.tree = {}
                                       \/ w.order = <<n_AppEntry1>>}}
    \cup {[tree |-> EmptyFS, order |-> <<>>],
          [tree |-> distDir :> File(c_own), order |-> <<>>]}

\* what an earlier build, or anything else, left at .vercel
PriorOutputs ==
    {EmptyFS,
     <<n_vercel>> :> File(c_stale),
     (<<n_vercel>> :> Dir) @@ (outputDir :> File(c_stale)),
     [p \in {<<n_vercel>>, outputDir, staticDir, configDir} |-> Dir]
       @@ [p \in {indexPath, bundlePath, configPath, join(staticDir, n_stale),
                  join(configDir, n_stale)} |-> File(c_stale)]}

\* every name a path is made of
Names ==
    {n_dist, n_vercel, n_output, n_static, n_config, n_configjson,
     n_bundlejs, n_indexhtml, n_expo, n_js, n_web, n_x, n_assets, n_stale,
     n_AppEntry1, n_AppEntry2, n_AppEntryMap, n_mainAppEntry}

\* is the name a before the name b, compared byte by byte
ByteLess(a, b) ==
    \E i \in 1..(Len(b)) :
        /\ i <= Len(a) + 1
        /\ SubSeq(a, 1, i - 1) = SubSeq(b, 1, i - 1)
        /\ i = Len(a) + 1 \/ a[i] < b[i]

\* every name, in the order readdirSync lists those the case does not
\* order: sorted by byte
CanonicalNames ==
    [i \in 1..Cardinality(Names) |->
        CHOOSE n \in Names :
            Cardinality({m \in Names : ByteLess(m, n)}) = i - 1]

OrderOf(order) ==
    LET Rest(n) == \A i \in 1..Len(order) : order[i] # n
    IN  order \o SelectSeq(CanonicalNames, Rest)

Init ==
    /\ \E s \in SourceCases, p \in PriorOutputs :
          /\ fs = (<<>> :> Dir) @@ s.tree @@ p
          /\ dirOrder = OrderOf(s.order)
    /\ pc = "reset"
    /\ exit = "running"
    /\ jsFile = <<>>
    /\ runs = 1
    /\ prior = Subtree(fs, outputDir)

(***************************************************************************)
(* The actions: one per step of the script, and its next invocation.       *)
(***************************************************************************)
\* Step with the throw caught: the step is there to be taken again
Step_Retries(r, next) ==
    /\ fs' = r.fs
    /\ pc' = IF r.ok THEN next ELSE pc
    /\ exit' = exit

\* a step whose calls gave r: go on to the step next, or end on the throw
Step(r, next) ==
    /\ fs' = r.fs
    /\ IF r.ok THEN pc' = next /\ exit' = exit
               ELSE pc' = pc /\ exit' = "failure"

Reset ==
    /\ exit = "running" /\ pc = "reset"
    /\ Step(resetOutput(fs), "mirror")
    /\ UNCHANGED <<dirOrder, jsFile, runs, prior>>

Mirror ==
    /\ exit = "running" /\ pc = "mirror"
    /\ Step(mirror(fs), "promote")
    /\ UNCHANGED <<dirOrder, jsFile, runs, prior>>

Promote ==
    /\ exit = "running" /\ pc = "promote"
    /\ Step(promote(fs), "rewrite")
    /\ jsFile' = findJsFile(fs)
    /\ UNCHANGED <<dirOrder, runs, prior>>

Rewrite ==
    /\ exit = "running" /\ pc = "rewrite"
    /\ Step(rewrite(fs), "manifest")
    /\ UNCHANGED <<dirOrder, jsFile, runs, prior>>

WriteManifest ==
    /\ exit = "running" /\ pc = "manifest"
    /\ LET r == writeManifest(fs)
       IN  /\ fs' = r.fs
           /\ IF r.ok THEN pc' = "done" /\ exit' = "success"
                      ELSE pc' = pc /\ exit' = "failure"
    /\ UNCHANGED <<dirOrder, jsFile, runs, prior>>

\* the script is run again on what the run before left
Rerun ==
    /\ exit = "success" /\ runs < MaxRuns
    /\ pc' = "reset"
    /\ exit' = "running"
    /\ jsFile' = <<>>
    /\ runs' = runs + 1
    /\ prior' = Subtree(fs, outputDir)
    /\ UNCHANGED <<fs, dirOrder>>

Next == Reset \/ Mirror \/ Promote \/ Rewrite \/ WriteManifest \/ Rerun

Spec == Init /\ [][Next]_vars

(***************************************************************************)
(* The script on a file system whose calls can fail for a reason outside   *)
(* the tree (permission denied, disk full).  No call of the script is      *)
(* inside a try block, so the exception ends the process at the call: the  *)
(* file system stays as the calls before it left it, with what the failing *)
(* call itself had done by then.  existsSync never throws: when its stat   *)
(* fails it reports false, the script takes the path as absent, and the    *)
(* run goes on.                                                            *)
(***************************************************************************)
\* the order in which rmSync(p, { recursive: true }) removes what is at p:
\* the entries of a directory, then the directory
RECURSIVE removalOrder(_, _)
RECURSIVE removalOrderItems(_, _, _, _)
removalOrderItems(f, p, items, i) ==
    IF i > Len(items) THEN <<>>
    ELSE removalOrder(f, join(p, items[i]))
         \o removalOrderItems(f, p, items, i + 1)

removalOrder(f, p) ==
    IF isDirectory(f, p)
      THEN removalOrderItems(f, p, readdirSync(f, p), 1) \o <<p>>
      ELSE <<p>>

\* what a failing rmSync(p, { recursive: true }) can leave: the tree without
\* the paths it had removed when one removal failed
rmSyncFailing(f, p) ==
    LET order == removalOrder(f, p)
        Gone(k) == {order[i] : i \in 1..k}
    IN  {[q \in DOMAIN f \ Gone(k) |-> f[q]] : k \in 0..(Len(order) - 1)}

\* what a failing mkdirSync(p, { recursive: true }) can leave: the tree as
\* it was, which is all it can leave when nothing is missing, or the tree
\* with the ancestors of p it had created when one creation failed
mkdirSyncFailing(f, p) ==
    LET ancestors == {SubSeq(p, 1, n) : n \in 1..Len(p)}
        missing == ancestors \ DOMAIN f
        Created(m) == {a \in missing : Len(a) < m}
    IN  {f} \cup IF \E a \in ancestors : IsFile(f, a) THEN {}
                  ELSE {[q \in DOMAIN f \cup Created(Len(a)) |->
                            IF q \in DOMAIN f THEN f[q] ELSE Dir] :
                           a \in missing}

\* what a failing writeFileSync(p, data) can leave: the tree as it was, or p
\* opened for writing with the bytes written so far, none or a part of data
writeFailing(f, p, data) ==
    {f} \cup IF Writable(f, p)
              THEN {writeFileSync(f, p, SubSeq(data, 1, k)).fs :
                       k \in 0..(Len(data) - 1)}
              ELSE {}

\* what a failing copyFileSync(src, dest) can leave: the tree as it was, or,
\* dest opened and emptied and the copy failed, the tree without dest or,
\* the removal failing too, dest with the bytes copied so far: none,
\* whatever src is, or a part of the file src
copyFailing(f, src, dest) ==
    {f} \cup IF ~Writable(f, dest) THEN {}
              ELSE {[q \in DOMAIN f \ {dest} |-> f[q]],
                    writeFileSync(f, dest, <<>>).fs}
                   \cup IF ~IsFile(f, src) THEN {}
                        ELSE {writeFileSync(f, dest,
                                            SubSeq(f[src].data, 1, k)).fs :
                                 k \in 1..(Len(f[src].data) - 1)}

\* the outcome of a call that failed, no call left to make; src and dest
\* are those of a failing copyFileSync, empty for any other call
Fault(f, src, dest) ==
    [ok |-> FALSE, fs |-> f, left |-> 0, src |-> src, dest |-> dest]

\* fs.existsSync(p) when the stat of the paths in hidden fails: it reports
\* false for them
existsSyncIO(f, p, hidden) == existsSync(f, p) /\ p \notin hidden

\* the paths under dist whose existence test fails during one walk: none,
\* one entry, or every entry of one directory, which is then not searchable
HiddenChoices(f) ==
    LET under == {p \in DOMAIN f : IsPrefix(distDir, p)}
    IN  {{}} \cup {{p} : p \in under}
        \cup {{q \in under : Len(q) = Len(d) + 1 /\ IsPrefix(d, q)} :
                 d \in {d \in under : IsDir(f, d)}}

\* copyRecursive(src, dest) when the existence test of line 75 reports false
\* for the paths in hidden, the first n calls that can throw return and the
\* next one fails; fs is the tree when the failing call starts.  left is n
\* less the calls made.  The test of line 78 on a dest that is there makes
\* mkdirSync a call that creates nothing.
RECURSIVE copyRecursiveFailing(_, _, _, _, _)
RECURSIVE copyItemsFailing(_, _, _, _, _, _, _)
copyItemsFailing(f, src, dest, items, i, n, hidden) ==
    IF i > Len(items) THEN [ok |-> TRUE, fs |-> f, left |-> n]
    ELSE LET r == copyRecursiveFailing(f, join(src, items[i]),
                                       join(dest, items[i]), n, hidden)
         IN  IF r.ok
               THEN copyItemsFailing(r.fs, src, dest, items, i + 1, r.left,
                                     hidden)
               ELSE r

copyRecursiveFailing(f, src, dest, n, hidden) ==
    IF ~existsSyncIO(f, src, hidden) THEN [ok |-> TRUE, fs |-> f, left |-> n]
    ELSE IF n = 0 THEN Fault(f, <<>>, <<>>)
    ELSE IF isDirectory(f, src)
      THEN LET needed == ~existsSync(f, dest)
               made == IF ~needed THEN Ok(f)
                       ELSE IF n = 1 THEN Throw(f)
                       ELSE mkdirSync(f, dest)
               rest == IF needed THEN n - 2 ELSE n - 1
           IN  IF ~made.ok \/ rest = 0 THEN Fault(made.fs, <<>>, <<>>)
               ELSE copyItemsFailing(made.fs, src, dest,
                                     readdirSync(made.fs, src), 1, rest - 1,
                                     hidden)
    ELSE IF n = 1 THEN Fault(f, src, dest)
    ELSE LET copied == copyFileSync(f, src, dest)
         IN  IF copied.ok THEN [ok |-> TRUE, fs |-> copied.fs, left |-> n - 2]
             ELSE Fault(copied.fs, <<>>, <<>>)

\* lines 10-17 with a failing call: rmSync, or one of the two mkdirSync, as
\* well after an existence test of line 11 that missed the old output
resetFailing(f) ==
    LET cleared == IF existsSync(f, outputDir) THEN rmSync(f, outputDir) ELSE f
        made == mkdirSync(cleared, staticDir)
        kept == mkdirSync(f, staticDir)
    IN  (IF existsSync(f, outputDir) THEN rmSyncFailing(f, outputDir) ELSE {})
        \cup mkdirSyncFailing(cleared, staticDir)
        \cup (IF made.ok THEN mkdirSyncFailing(made.fs, configDir) ELSE {})
        \cup mkdirSyncFailing(f, staticDir)
        \cup (IF kept.ok THEN mkdirSyncFailing(kept.fs, configDir) ELSE {})

\* lines 10-17 when the existence test of line 11 reports false for an
\* old output that is there: it is not removed
resetSkipping(f) ==
    LET kept == mkdirSync(f, staticDir)
        made == IF kept.ok THEN mkdirSync(kept.fs, configDir) ELSE kept
    IN  IF existsSync(f, outputDir) /\ made.ok THEN {made.fs} ELSE {}

\* the most calls that can throw a walk over dist makes
walkCalls(f) == 3 * Cardinality({p \in DOMAIN f : IsPrefix(distDir, p)})

\* lines 19-21 with a failing call: statSync, mkdirSync, readdirSync or
\* copyFileSync, at any place of the walk
mirrorFailing(f) ==
    LET runs_ == {copyRecursiveFailing(f, distDir, staticDir, n, h) :
                     n \in 0..walkCalls(f), h \in HiddenChoices(f)}
        Left(r) == IF r.src = <<>> THEN {r.fs}
                   ELSE copyFailing(r.fs, r.src, r.dest)
    IN  UNION {Left(r) : r \in {r \in runs_ : ~r.ok}}

\* lines 19-21 when an existence test of line 75 reports false for an entry
\* that is there: the walk leaves it out and returns
mirrorSkipping(f) ==
    LET runs_ == {copyRecursiveFailing(f, distDir, staticDir, walkCalls(f),
                                       h) : h \in HiddenChoices(f) \ {{}}}
    IN  {r.fs : r \in {r \in runs_ : r.ok}}

\* lines 23-34 with a failing call: readdirSync, which leaves jsFile unset,
\* or copyFileSync
promoteFailing(f) ==
    IF ~existsSync(f, jsDir) THEN {}
    ELSE {[fs |-> f, jsFile |-> <<>>]}
         \cup IF findJsFile(f) = <<>> THEN {}
              ELSE {[fs |-> g, jsFile |-> findJsFile(f)] :
                       g \in copyFailing(f, join(jsDir, findJsFile(f)),
                                         bundlePath)}

\* lines 23-34 when the existence test of line 26 reports false for a
\* bundle directory that is there: nothing is promoted
promoteSkipping(f) == IF existsSync(f, jsDir) THEN {f} ELSE {}

\* lines 36-44 with a failing call: readFileSync or writeFileSync
rewriteFailing(f) ==
    IF ~existsSync(f, indexPath) THEN {}
    ELSE IF isDirectory(f, indexPath) THEN {f}
    ELSE writeFailing(f, indexPath,
                      utf8Encode(replace(utf8Decode(f[indexPath].data))))

\* lines 36-44 when the existence test of line 39 reports false for an
\* index.html that is there: it is left as the mirror made it
rewriteSkipping(f) == IF existsSync(f, indexPath) THEN {f} ELSE {}

\* line 70 with a failing writeFileSync
writeManifestFailing(f) == writeFailing(f, configPath, configText)

ResetFails ==
    /\ exit = "running" /\ pc = "reset"
    /\ \E g \in resetFailing(fs) : Step(Throw(g), "mirror")
    /\ UNCHANGED <<dirOrder, jsFile, runs, prior>>

MirrorFails ==
    /\ exit = "running" /\ pc = "mirror"
    /\ \E g \in mirrorFailing(fs) : Step(Throw(g), "promote")
    /\ UNCHANGED <<dirOrder, jsFile, runs, prior>>

PromoteFails ==
    /\ exit = "running" /\ pc = "promote"
    /\ \E r \in promoteFailing(fs) :
          Step(Throw(r.fs), "rewrite") /\ jsFile' = r.jsFile
    /\ UNCHANGED <<dirOrder, runs, prior>>

RewriteFails ==
    /\ exit = "running" /\ pc = "rewrite"
    /\ \E g \in rewriteFailing(fs) : Step(Throw(g), "manifest")
    /\ UNCHANGED <<dirOrder, jsFile, runs, prior>>

WriteManifestFails ==
    /\ exit = "running" /\ pc = "manifest"
    /\ \E g \in writeManifestFailing(fs) : Step(Throw(g), "done")
    /\ UNCHANGED <<dirOrder, jsFile, runs, prior>>

ResetSkips ==
    /\ exit = "running" /\ pc = "reset"
    /\ \E g \in resetSkipping(fs) : Step(Ok(g), "mirror")
    /\ UNCHANGED <<dirOrder, jsFile, runs, prior>>

MirrorSkips ==
    /\ exit = "running" /\ pc = "mirror"
    /\ \E g \in mirrorSkipping(fs) : Step(Ok(g), "promote")
    /\ UNCHANGED <<dirOrder, jsFile, runs, prior>>

PromoteSkips ==
    /\ exit = "running" /\ pc = "promote"
    /\ \E g \in promoteSkipping(fs) : Step(Ok(g), "rewrite")
    /\ jsFile' = <<>>
    /\ UNCHANGED <<dirOrder, runs, prior>>

RewriteSkips ==
    /\ exit = "running" /\ pc = "rewrite"
    /\ \E g \in rewriteSkipping(fs) : Step(Ok(g), "manifest")
    /\ UNCHANGED <<dirOrder, jsFile, runs, prior>>

\* the source trees of the runs with a failing call: with and without an
\* index.html that names the bundle, a bundle.js of its own, another
\* directory and a bundle directory of two entries, and no dist
SourceCasesIO ==
    {DistOf(i, b, e, w) :
        i \in {EmptyFS, join(distDir, n_indexhtml) :> File(t_expo)},
        b \in {EmptyFS, join(distDir, n_bundlejs) :> File(c_own)},
        e \in {EmptyFS, join(distDir, n_assets) :> Dir},
        w \in {[tree |-> EmptyFS, order |-> <<>>],
               WebDir({n_AppEntry1, n_AppEntryMap},
                      <<n_AppEntry1, n_AppEntryMap>>)}}
    \cup {[tree |-> EmptyFS, order |-> <<>>]}

InitIO ==
    /\ \E s \in SourceCasesIO, p \in PriorOutputs :
          /\ fs = (<<>> :> Dir) @@ s.tree @@ p
          /\ dirOrder = OrderOf(s.order)
    /\ pc = "reset"
    /\ exit = "running"
    /\ jsFile = <<>>
    /\ runs = 1
    /\ prior = Subtree(fs, outputDir)

\* one run of the script, over each of the prior outputs
NextIO ==
    \/ Reset \/ Mirror \/ Promote \/ Rewrite \/ WriteManifest
    \/ ResetFails \/ MirrorFails \/ PromoteFails \/ RewriteFails
    \/ WriteManifestFails
    \/ ResetSkips \/ MirrorSkips \/ PromoteSkips \/ RewriteSkips

SpecIO == InitIO /\ [][NextIO]_vars

(***************************************************************************)
(* The claims.                                                             *)
(***************************************************************************)
\* the run has ended with exit code 0
Completed == exit = "success"

srcIndex == join(distDir, n_indexhtml)

srcBundle == join(distDir, n_bundlejs)

\* the path under static that mirrors the path p under dist
InStatic(p) == staticDir \o SubSeq(p, 2, Len(p))

\* the path under dist that the path p under static mirrors
InDist(p) == distDir \o SubSeq(p, 4, Len(p))

\* the files of the source tree
SourceFiles == {p \in DOMAIN fs : IsPrefix(distDir, p) /\ fs[p].kind = "file"}

\* is s a part of h
Contains(h, s) == \E i \in 1..Len(h) : Slice(h, i, Len(s)) = s

\* the root of static has the bundle.js the mirror gave it, or none
BundleAsMirrored ==
    IF existsSync(fs, srcBundle)
      THEN existsSync(fs, bundlePath) /\ fs[bundlePath] = fs[srcBundle]
      ELSE ~existsSync(fs, bundlePath)

\* C1 as claimed: after a completed run every file of dist is under static at
\* the same relative path with the same content.
C1_MirrorsEveryFile ==
    Completed =>
      \A p \in SourceFiles :
          IsFile(fs, InStatic(p)) /\ fs[InStatic(p)].data = fs[p].data

\* C1 (amended): after a completed run every file of dist is a file under
\* static at the same relative path; its content is the source's, except for
\* index.html at the root, which the rewrite step writes, and for bundle.js
\* at the root when a bundle was promoted over it.
C1_MirrorsEveryOtherFile ==
    Completed =>
      \A p \in SourceFiles :
          /\ IsFile(fs, InStatic(p))
          /\ p # srcIndex /\ (p = srcBundle => jsFile = <<>>)
               => fs[InStatic(p)].data = fs[p].data

\* a completed run over a tree with a nested file, an index.html the rewrite
\* changed and a bundle.js of its own that the promotion replaced
C1_Witness ==
    /\ Completed
    /\ IsFile(fs, join(jsDir, n_AppEntry1))
    /\ IsFile(fs, srcIndex) /\ fs[indexPath].data # fs[srcIndex].data
    /\ IsFile(fs, srcBundle) /\ fs[bundlePath].data # fs[srcBundle].data

\* is p, under the output root, a path this run creates
CreatedByRun(p) ==
    \/ p \in {outputDir, staticDir, configDir, configPath, bundlePath}
    \/ IsPrefix(staticDir, p) /\ existsSync(fs, InDist(p))

\* C2: once the reset step is over nothing of the prior output is left: every
\* path under .vercel/output is one the run creates, and no file there has
\* the content the prior output had.
C2_NoPriorOutputSurvives ==
    pc # "reset" =>
      \A p \in DOMAIN fs :
          IsPrefix(outputDir, p) =>
            CreatedByRun(p) /\ fs[p].data # c_stale

\* a completed first run over a prior output whose stale.txt files and
\* bundle.js are gone
C2_Witness ==
    /\ Completed /\ runs = 1
    /\ IsFile(prior, join(staticDir, n_stale))
    /\ IsFile(prior, join(configDir, n_stale))
    /\ IsFile(prior, bundlePath)
    /\ ~existsSync(fs, bundlePath)
    /\ IsFile(fs, indexPath)

\* C3: a run over the output of a completed run on the same source tree
\* leaves the same output tree: the same paths with the same content.
C3_SecondRunSameOutput ==
    Completed /\ runs >= 2 => Subtree(fs, outputDir) = prior

\* a completed second run that promoted a bundle and rewrote index.html
C3_Witness ==
    /\ Completed /\ runs = 2
    /\ jsFile # <<>>
    /\ IsFile(fs, srcIndex) /\ fs[indexPath].data # fs[srcIndex].data

\* a name that starts with AppEntry and ends with .js
NamedAsBundle(n) ==
    /\ Len(n) >= Len(s_AppEntry) + Len(s_dotjs)
    /\ SubSeq(n, 1, Len(s_AppEntry)) = s_AppEntry
    /\ SubSeq(n, Len(n) - Len(s_dotjs) + 1, Len(n)) = s_dotjs

\* the files directly under dist/_expo/static/js/web named as a bundle is
BundleFiles ==
    {p \in DOMAIN fs : /\ Len(p) = Len(jsDir) + 1 /\ IsPrefix(jsDir, p)
                       /\ fs[p].kind = "file" /\ NamedAsBundle(p[Len(p)])}

\* C4: when exactly one file under dist/_expo/static/js/web is named as a
\* bundle is, a completed run leaves static/bundle.js with its content.
C4_SingleBundlePromoted ==
    Completed /\ Cardinality(BundleFiles) = 1 =>
      /\ IsFile(fs, bundlePath)
      /\ \A p \in BundleFiles : fs[bundlePath].data = fs[p].data

\* a completed run over a web directory that lists two files of other names
\* ahead of its one bundle
C4_Witness ==
    /\ Completed
    /\ BundleFiles = {join(jsDir, n_AppEntry2)}
    /\ SubSeq(dirOrder, 1, 3) = <<n_mainAppEntry, n_AppEntryMap, n_AppEntry2>>
    /\ fs[bundlePath].data = c_js2

\* C5 as claimed, for the output: without dist/_expo/static/js/web a
\* completed run leaves no bundle.js at the root of static.
C5_NoBundleWithoutJsDir ==
    Completed /\ ~existsSync(fs, jsDir) => ~existsSync(fs, bundlePath)

\* C5 (amended): without dist/_expo/static/js/web the promotion step is
\* skipped without error and finds no bundle, and from then on, so after a
\* completed run, static has a bundle.js at its root exactly when the source
\* tree has one at its root, as its mirrored copy.
C5_NoPromotionWithoutJsDir ==
    ~existsSync(fs, jsDir) =>
      /\ ~(pc = "promote" /\ exit = "failure")
      /\ pc \in {"rewrite", "manifest", "done"} =>
           jsFile = <<>> /\ BundleAsMirrored

\* a completed run without the web directory over a tree with its own bundle.js
C5_Witness ==
    /\ Completed
    /\ ~existsSync(fs, jsDir) /\ existsSync(fs, join(distDir, n_expo))
    /\ IsFile(fs, srcBundle) /\ IsFile(fs, bundlePath)

\* C6 as claimed: when no AppEntry*.js is found, a completed run has
\* promoted no bundle.js and has left index.html with the text the source
\* has (compared decoded, so that only a changed text counts).
C6_NoMatchSkipsRewrite ==
    Completed /\ jsFile = <<>> =>
      /\ BundleAsMirrored
      /\ IsFile(fs, srcIndex) =>
           /\ IsFile(fs, indexPath)
           /\ utf8Decode(fs[indexPath].data) = utf8Decode(fs[srcIndex].data)

\* the rewrite put src="/bundle.js" into index.html
Rewritten ==
    /\ IsFile(fs, srcIndex) /\ IsFile(fs, indexPath)
    /\ fs[indexPath].data # utf8Encode(utf8Decode(fs[srcIndex].data))
    /\ Contains(fs[indexPath].data, s_replacement)

\* C7 as claimed: after a completed run that rewrote index.html to
\* src="/bundle.js", static/bundle.js is there and is the promoted bundle.
C7_RewrittenRefResolves ==
    Completed /\ Rewritten =>
      /\ IsFile(fs, bundlePath)
      /\ jsFile # <<>> /\ fs[bundlePath].data = fs[join(jsDir, jsFile)].data

\* the position of the quote that closes the attribute value opened at i + 4
ClosingQuote(h, i) ==
    LET quotes == {j \in (i + 5)..Len(h) : h[j] = 34}
    IN  IF quotes = {} THEN 0 ELSE Min(quotes)

\* does a src="..." attribute whose value contains AppEntry and ends in .js
\* start at position i of h
IsBundleSrcAt(h, i) ==
    /\ Slice(h, i, Len(s_srcq)) = s_srcq
    /\ ClosingQuote(h, i) # 0
    /\ LET value == SubSeq(h, i + 5, ClosingQuote(h, i) - 1)
       IN  Contains(value, s_AppEntry) /\ endsWith(value, s_dotjs)

\* h with the first such attribute replaced by src="/bundle.js"
FirstSrcReplaced(h) ==
    LET starts == {i \in 1..Len(h) : IsBundleSrcAt(h, i)}
    IN  IF starts = {} THEN h
        ELSE SubSeq(h, 1, Min(starts) - 1) \o s_replacement
             \o SubSeq(h, ClosingQuote(h, Min(starts)) + 1, Len(h))

\* C8 as claimed: once the rewrite step is over, the static index.html is
\* the source's with the first src="..." attribute that names an AppEntry
\* .js file replaced by src="/bundle.js" and every other byte as it was.
C8_OnlyFirstSrcRewritten ==
    pc \in {"manifest", "done"} /\ IsFile(fs, srcIndex) =>
      fs[indexPath].data = FirstSrcReplaced(fs[srcIndex].data)

\* <script src="/bundle.js"></script>
t_bundle ==
    <<60, 115, 99, 114, 105, 112, 116, 32, 115, 114, 99, 61, 34, 47, 98,
    117, 110, 100, 108, 101, 46, 106, 115, 34, 62, 60, 47, 115, 99, 114,
    105, 112, 116, 62>>

\* the source tree of the scenario
ScenarioDist ==
    (distDir :> Dir) @@ (srcIndex :> File(t_x))
    @@ (join(distDir, n_x) :> Dir)
    @@ (join(join(distDir, n_x), n_AppEntry1) :> File(c_js1))

\* the static tree the scenario expects
ScenarioStatic ==
    (staticDir :> Dir) @@ (indexPath :> File(t_bundle))
    @@ (join(staticDir, n_x) :> Dir)
    @@ (join(join(staticDir, n_x), n_AppEntry1) :> File(c_js1))
    @@ (bundlePath :> File(c_js1))

\* C9 as claimed: for the scenario's source tree a completed run leaves the
\* static tree the scenario expects, and config.json at the output root.
C9_Scenario ==
    Completed /\ Subtree(fs, distDir) = ScenarioDist =>
      Subtree(fs, staticDir) = ScenarioStatic /\ IsFile(fs, configPath)

\* the manifest of the specification: version 3 and the four routes
Manifest ==
    [t |-> "obj", n |-> 0, s |-> <<>>,
     keys |-> <<k_version, k_routes>>,
     kids |-> <<JNum(3),
       JArr(<<
         [t |-> "obj", n |-> 0, s |-> <<>>,
          keys |-> <<k_src, k_headers, k_continue>>,
          kids |-> <<JStr(v_static),
                     [t |-> "obj", n |-> 0, s |-> <<>>,
                      keys |-> <<k_CacheControl>>, kids |-> <<JStr(v_cache)>>],
                     JBool(TRUE)>>],
         [t |-> "obj", n |-> 0, s |-> <<>>,
          keys |-> <<k_src, k_headers, k_continue>>,
          kids |-> <<JStr(v_assets),
                     [t |-> "obj", n |-> 0, s |-> <<>>,
                      keys |-> <<k_CacheControl>>, kids |-> <<JStr(v_cache)>>],
                     JBool(TRUE)>>],
         [t |-> "obj", n |-> 0, s |-> <<>>,
          keys |-> <<k_handle>>, kids |-> <<JStr(v_filesystem)>>],
         [t |-> "obj", n |-> 0, s |-> <<>>,
          keys |-> <<k_src, k_dest>>,
          kids |-> <<JStr(v_all), JStr(v_index)>>] >>)>>]

\* the text the script writes reads back as the manifest
ManifestReadsBack ==
    LET read == parse(utf8Decode(configText))
    IN  read.ok /\ read.v = Manifest

\* C10: after every completed run config.json at the output root is a file
\* whose text reads back as the manifest: version 3 and the four routes, the
\* two cache rules, the file system handle and the fallback, in this order.
C10_ManifestExact ==
    Completed =>
      /\ IsFile(fs, configPath)
      /\ fs[configPath].data = configText
      /\ ManifestReadsBack

\* a completed run without dist, every optional step skipped, over a prior
\* output that had a config.json of its own
C10_Witness ==
    /\ Completed
    /\ ~existsSync(fs, distDir)
    /\ IsFile(prior, configPath) /\ prior[configPath].data = c_stale

\* the paths directly under the directory p
Children(f, p) == {q \in DOMAIN f : Len(q) = Len(p) + 1 /\ IsPrefix(p, q)}

\* C12: without dist the mirror step does not fail and leaves static empty:
\* from the end of the mirror step on static is an empty directory, and
\* after a completed run the output root holds static, config and
\* config.json and nothing else.
C12_NoDistEmptyStatic ==
    ~existsSync(fs, distDir) =>
      /\ ~(pc = "mirror" /\ exit = "failure")
      /\ pc \in {"promote", "rewrite", "manifest", "done"} =>
           IsDir(fs, staticDir) /\ Children(fs, staticDir) = {}
      /\ Completed =>
           Children(fs, outputDir) = {staticDir, configDir, configPath}

\* a completed run without dist over a prior output whose static had files
C12_Witness ==
    /\ Completed
    /\ ~existsSync(fs, distDir)
    /\ IsFile(prior, indexPath) /\ IsFile(prior, join(staticDir, n_stale))
    /\ Children(fs, staticDir) = {}

\* C13: between the reset step and the mirror step the output root holds the
\* two directories static and config, both empty, and nothing else, whatever
\* was there before.
C13_ResetLeavesEmptyDirs ==
    pc = "mirror" /\ exit = "running" =>
      Subtree(fs, outputDir) =
        [p \in {outputDir, staticDir, configDir} |-> Dir]

\* the reset step is over, in a run started over a prior output with files
\* at its root, in static and in config
C13_Witness ==
    /\ pc = "mirror" /\ exit = "running"
    /\ IsFile(prior, configPath)
    /\ IsFile(prior, join(staticDir, n_stale))
    /\ IsFile(prior, join(configDir, n_stale))

\* is what is at p the same in f and in g
SameAt(f, g, p) ==
    /\ existsSync(f, p) <=> existsSync(g, p)
    /\ existsSync(f, p) => f[p] = g[p]

\* C14: the steps follow one another in the order reset, mirror, promote,
\* rewrite, manifest; once the promotion is over no step changes
\* static/bundle.js, once the rewrite is over no step changes
\* static/index.html, no step before the manifest step leaves a config.json,
\* the manifest step changes config.json alone, and nothing is written
\* after it.
C14_StepsInOrder ==
    [][/\ pc' # pc =>
            <<pc, pc'>> \in {<<"reset", "mirror">>, <<"mirror", "promote">>,
                             <<"promote", "rewrite">>, <<"rewrite", "manifest">>,
                             <<"manifest", "done">>, <<"done", "reset">>}
       /\ pc \in {"rewrite", "manifest", "done"} => SameAt(fs, fs', bundlePath)
       /\ pc \in {"manifest", "done"} => SameAt(fs, fs', indexPath)
       /\ pc \in {"reset", "mirror", "promote", "rewrite"}
            => ~existsSync(fs', configPath)
       /\ pc = "manifest" =>
            \A p \in (DOMAIN fs \cup DOMAIN fs') \ {configPath} :
                SameAt(fs, fs', p)
       /\ pc = "done" => fs' = fs]_vars

\* a completed run whose promotion replaced the mirrored bundle.js and whose
\* rewrite changed the mirrored index.html
C14_Witness ==
    /\ Completed /\ runs = 1
    /\ Rewritten
    /\ IsFile(fs, srcBundle) /\ fs[srcBundle].data = c_own
    /\ fs[bundlePath].data = c_js2

\* the place of the name n in the listing order
Position(n) == Min({i \in 1..Len(dirOrder) : dirOrder[i] = n})

\* the entries of dist/_expo/static/js/web
Entries == Children(fs, jsDir)

\* the entries whose name starts with AppEntry and ends with .js
Matching == {q \in Entries : NamedAsBundle(q[Len(q)])}

\* the matching entries that no other matching entry is listed before
FirstMatching ==
    {q \in Matching :
        \A r \in Matching : Position(q[Len(q)]) <= Position(r[Len(r)])}

\* C15: when several entries of dist/_expo/static/js/web are named as a
\* bundle is, a completed run has chosen the one listed first and
\* static/bundle.js is a copy of it and of no other entry; and a name that
\* fails the prefix or the suffix test is never the one chosen.
C15_FirstListedMatchPromoted ==
    /\ Completed /\ Cardinality(Matching) >= 2 =>
         /\ IsFile(fs, bundlePath)
         /\ \A q \in FirstMatching :
               jsFile = q[Len(q)] /\ fs[bundlePath].data = fs[q].data
         /\ \A q \in Entries \ FirstMatching :
               fs[q].kind = "file" => fs[bundlePath].data # fs[q].data
    /\ pc \in {"rewrite", "manifest", "done"} =>
         /\ jsFile = <<>> \/ NamedAsBundle(jsFile)
         /\ \A q \in Entries \ Matching :
               jsFile # <<>> => fs[bundlePath].data # fs[q].data

\* a completed run over a bundle directory that lists AppEntry-x.js.map,
\* then the second bundle, main-AppEntry.js and the first bundle
C15_Witness ==
    /\ Completed
    /\ Cardinality(Matching) = 2 /\ Cardinality(Entries) = 4
    /\ SubSeq(dirOrder, 1, 4)
         = <<n_AppEntryMap, n_AppEntry2, n_mainAppEntry, n_AppEntry1>>
    /\ fs[bundlePath].data = c_js2

\* under the output root there is nothing but the new directories
OnlyNewDirs ==
    \A p \in DOMAIN fs :
        IsPrefix(outputDir, p) =>
          p \in {outputDir, staticDir, configDir} /\ fs[p] = Dir

\* under the output root there is a part of the prior output, the root itself
\* included, and nothing else
PartOfPrior ==
    /\ existsSync(fs, outputDir)
    /\ \A p \in DOMAIN fs :
          IsPrefix(outputDir, p) => existsSync(prior, p) /\ fs[p] = prior[p]

\* under the output root there is nothing but what this run has created
NothingOfPrior ==
    \A p \in DOMAIN fs :
        IsPrefix(outputDir, p) => CreatedByRun(p) /\ fs[p].data # c_stale

\* the path p is as the prior output had it
AsPrior(p) == existsSync(prior, p) /\ existsSync(fs, p) /\ fs[p] = prior[p]

\* the prior output was not removed: what this run does not write of it,
\* index.html being one it rewrites, is as it was, and there is nothing
\* else under the output root that this run does not create
PriorLeft ==
    /\ existsSync(prior, outputDir)
    /\ \A p \in DOMAIN prior :
          CreatedByRun(p) \/ p = indexPath \/ AsPrior(p)
    /\ \A p \in DOMAIN fs :
          IsPrefix(outputDir, p) => CreatedByRun(p) \/ existsSync(prior, p)

\* a step with a failing call is taken
FailingStep ==
    ResetFails \/ MirrorFails \/ PromoteFails \/ RewriteFails
    \/ WriteManifestFails

\* a step is taken in which an existence test fails and reports false
SkippingStep == ResetSkips \/ MirrorSkips \/ PromoteSkips \/ RewriteSkips

\* the state of a failed run, as claimed: the prior output removed, and no
\* config.json unless the manifest step was reached
FailedAsClaimed ==
    /\ pc # "done"
    /\ pc = "reset" => OnlyNewDirs
    /\ pc # "reset" => NothingOfPrior
    /\ pc # "manifest" => ~existsSync(fs, configPath)
    /\ pc = "manifest" /\ existsSync(fs, configPath) =>
         fs[configPath].data # configText

\* the bytes a are the first bytes of b, or all of them
IsPartOf(a, b) == Len(a) <= Len(b) /\ a = SubSeq(b, 1, Len(a))

\* every file under static is the copy of the file of dist it mirrors, or a
\* part of it, or as the prior output had it, bundle.js being looked at
\* only when asked
PartlyMirrored(withBundle) ==
    \A p \in DOMAIN fs :
        /\ IsPrefix(staticDir, p) /\ IsFile(fs, p)
        /\ withBundle \/ p # bundlePath
        => \/ AsPrior(p)
           \/ /\ IsFile(fs, InDist(p))
              /\ IsPartOf(fs[p].data, fs[InDist(p)].data)

\* static/bundle.js is missing, or as the prior output had it, or the
\* mirrored copy, or empty, or a part of the first matching entry
PartlyPromoted ==
    IsFile(fs, bundlePath) =>
      \/ AsPrior(bundlePath)
      \/ IsFile(fs, srcBundle) /\ fs[bundlePath] = fs[srcBundle]
      \/ fs[bundlePath].data = <<>>
      \/ \E q \in FirstMatching :
            IsFile(fs, q) /\ IsPartOf(fs[bundlePath].data, fs[q].data)

\* the state of a failed run: a run that failed in the reset step can have
\* left a part of the prior output; after the reset step the prior output
\* is gone, unless the existence test of line 11 missed it, and it is then
\* left; a copy that failed can have left a part of the file; config.json
\* is missing or as the prior output had it, or after a failed manifest
\* step a part of the manifest
FailedState ==
    /\ pc # "done"
    /\ pc = "reset" => OnlyNewDirs \/ PartOfPrior
    /\ pc # "reset" => (NothingOfPrior \/ PriorLeft) /\ IsDir(fs, staticDir)
    /\ pc = "mirror" => PartlyMirrored(TRUE)
    /\ pc = "promote" => PartlyMirrored(FALSE) /\ PartlyPromoted
    /\ existsSync(fs, configPath) =>
         \/ AsPrior(configPath)
         \/ /\ pc = "manifest"
            /\ Len(fs[configPath].data) < Len(configText)
            /\ IsPartOf(fs[configPath].data, configText)

C17_ManifestAtOutputRoot ==
    Completed =>
      /\ IsDir(fs, configDir) /\ Children(fs, configDir) = {}
      /\ IsFile(fs, configPath) /\ fs[configPath].data = configText
      /\ \A p \in DOMAIN fs :
            fs[p] = File(configText) => p = configPath
      /\ existsSync(fs, join(staticDir, n_configjson))
           <=> existsSync(fs, join(distDir, n_configjson))
      /\ existsSync(fs, join(staticDir, n_configjson)) =>
           fs[join(staticDir, n_configjson)] = fs[join(distDir, n_configjson)]

\* a completed run over a dist with a config.json of its own and over a
\* prior output whose config directory had a file
C17_Witness ==
    /\ Completed
    /\ IsFile(fs, join(distDir, n_configjson))
    /\ IsFile(fs, join(staticDir, n_configjson))
    /\ IsFile(prior, join(configDir, n_stale))

\* h has no src="..." attribute whose value contains AppEntry and ends in .js
NoBundleSrc(h) == \A i \in 1..Len(h) : ~IsBundleSrcAt(h, i)

\* C18 as claimed: when index.html has no src attribute that names an
\* AppEntry .js file, then once the rewrite step is over the static
\* index.html has the content of the source's, byte for byte, whether or not
\* a bundle was promoted.
C18_NoMatchWritesBackIdentical ==
    /\ pc \in {"manifest", "done"}
    /\ IsFile(fs, srcIndex) /\ NoBundleSrc(fs[srcIndex].data)
    => /\ IsFile(fs, indexPath)
       /\ fs[indexPath].data = fs[srcIndex].data

\* C19: no step changes the source tree: the paths under dist, the kind of
\* each and the content of every file are after the step what they were
\* before it.
C19_SourceTreeUnchanged ==
    [][Subtree(fs', distDir) = Subtree(fs, distDir)]_vars

\* a completed second run whose rewrite changed the static index.html and
\* whose promotion put the bundle at the root of static, the source's
\* index.html as it was
C19_Witness ==
    /\ Completed /\ runs = 2
    /\ IsFile(fs, srcIndex) /\ fs[srcIndex].data = t_expo
    /\ fs[indexPath].data # t_expo
    /\ IsFile(fs, join(jsDir, n_AppEntry1))
    /\ ~existsSync(fs, srcBundle) /\ fs[bundlePath].data = c_js1

\* the paths below the directory p
Below(p) == {q \in DOMAIN fs : IsPrefix(p, q) /\ q # p}

\* C20: after a completed run the paths below static are the paths below
\* dist, each of the kind it has in dist, and bundle.js besides when a
\* matching bundle was found; index.html is in static exactly when it is in
\* dist; and the output root holds static, config and config.json and
\* nothing else.
C20_NothingExtra ==
    Completed =>
      /\ Below(staticDir)
           = {InStatic(q) : q \in Below(distDir)}
             \cup (IF jsFile # <<>> THEN {bundlePath} ELSE {})
      /\ \A q \in Below(distDir) : fs[InStatic(q)].kind = fs[q].kind
      /\ existsSync(fs, indexPath) <=> existsSync(fs, srcIndex)
      /\ Children(fs, outputDir) = {staticDir, configDir, configPath}

\* a completed run over a dist with an empty directory and no bundle.js of
\* its own that promoted a bundle, over a prior output with other files
C20_Witness ==
    /\ Completed
    /\ IsDir(fs, join(distDir, n_assets)) /\ IsDir(fs, join(staticDir, n_assets))
    /\ jsFile # <<>> /\ ~existsSync(fs, srcBundle) /\ IsFile(fs, bundlePath)
    /\ IsFile(prior, join(staticDir, n_stale))

\* C21: when dist has a file bundle.js at its root, a completed run leaves
\* static/bundle.js with the content of the first listed matching entry of
\* dist/_expo/static/js/web when there is one, the mirrored copy
\* overwritten, and with the content of the source's bundle.js when there
\* is none or the directory does not exist.
C21_PromotionOverwritesMirrored ==
    Completed /\ IsFile(fs, srcBundle) =>
      /\ IsFile(fs, bundlePath)
      /\ Matching # {} =>
           /\ jsFile # <<>>
           /\ \A q \in FirstMatching : fs[bundlePath].data = fs[q].data
           /\ fs[srcBundle].data \notin {fs[q].data : q \in FirstMatching}
                => fs[bundlePath].data # fs[srcBundle].data
      /\ Matching = {} =>
           jsFile = <<>> /\ fs[bundlePath].data = fs[srcBundle].data

\* a completed run over a dist without index.html, with a bundle.js of its
\* own and one matching entry, whose content static/bundle.js now has
C21_Witness ==
    /\ Completed
    /\ IsFile(fs, srcBundle) /\ fs[srcBundle] = File(c_own)
    /\ Matching = {join(jsDir, n_AppEntry1)}
    /\ fs[bundlePath] = File(c_js1)
    /\ ~existsSync(fs, srcIndex)

\* the bundle directory is there and has no entry named as a bundle is
NoMatchingEntry == IsDir(fs, jsDir) /\ Matching = {}

\* one of the absences C11 names: no dist, no dist/_expo/static/js/web, no
\* entry of it named as a bundle is, no index.html in dist
AnyAbsence ==
    \/ ~existsSync(fs, distDir)
    \/ ~existsSync(fs, jsDir)
    \/ NoMatchingEntry
    \/ ~existsSync(fs, srcIndex)

\* the step the run is at has met something of the wrong kind: .vercel a
\* file, dist a file, the bundle directory a file, the first matching entry
\* a directory or static/bundle.js one, index.html a directory
WrongKind ==
    \/ pc = "reset" /\ IsFile(fs, <<n_vercel>>)
    \/ pc = "mirror" /\ IsFile(fs, distDir)
    \/ pc = "promote" /\ \/ IsFile(fs, jsDir)
                         \/ \E q \in FirstMatching : IsDir(fs, q)
                         \/ Matching # {} /\ IsDir(fs, bundlePath)
    \/ pc = "rewrite" /\ IsDir(fs, indexPath)

\* C11 as claimed: with any of the absences the run raises no error.
C11_AbsentRunsNeverFail == AnyAbsence => exit # "failure"

\* C11 (amended): a run raises an error only at a step that meets something
\* of the wrong kind, never for an absence, so that a run that meets none
\* goes through its five steps; the reset step, .vercel not being a file,
\* hands over to the mirror with static and config as directories, a step
\* whose input is absent changes nothing and hands over to the next step
\* (the mirror without dist, the promotion without dist/_expo/static/js/web
\* or without a matching entry, the rewrite without index.html), and the
\* manifest step writes config.json and completes the run with exit code 0.
C11_AbsencesRaiseNoError ==
    [][/\ exit' = "failure" => WrongKind'
       /\ pc = "reset" /\ ~IsFile(fs, <<n_vercel>>)
            => /\ pc' = "mirror" /\ exit' = "running"
               /\ IsDir(fs', staticDir) /\ IsDir(fs', configDir)
       /\ pc = "mirror" /\ ~existsSync(fs, distDir)
            => pc' = "promote" /\ exit' = "running" /\ fs' = fs
       /\ pc = "promote" /\ (~existsSync(fs, jsDir) \/ NoMatchingEntry)
            => pc' = "rewrite" /\ exit' = "running" /\ fs' = fs
       /\ pc = "rewrite" /\ ~existsSync(fs, indexPath)
            => pc' = "manifest" /\ exit' = "running" /\ fs' = fs
       /\ pc = "manifest"
            => /\ pc' = "done" /\ exit' = "success"
               /\ IsFile(fs', configPath)]_vars

\* a completed run over a dist without index.html whose bundle directory
\* lists only names that fail the test
C11_Witness ==
    /\ Completed
    /\ NoMatchingEntry /\ IsFile(fs, join(jsDir, n_mainAppEntry))
    /\ ~existsSync(fs, srcIndex) /\ ~existsSync(fs, indexPath)
    /\ ~existsSync(fs, bundlePath)

====
